---------------------------- MODULE Spec2Model ----------------------------
(***************************************************************************)
(* A model of @takker/md5 (src/mod.ts): the md5() function, its update()   *)
(* buffering pipeline, the hash() block compressor and addLength().        *)
(*                                                                         *)
(* JavaScript numbers.  Every number the program computes with is an       *)
(* integer of magnitude far below 2^53, so its double arithmetic is exact. *)
(* TLC's integers are 32 bits wide, so a JavaScript number v is held as    *)
(* the pair <<hi, lo>> with v = hi * 65536 + lo, 0 <= lo < 65536 and hi   *)
(* any integer (negative for a negative v).  "+" is exact on such pairs;   *)
(* the bitwise operators first take ToInt32 / ToUint32 of their operands,  *)
(* as ECMAScript does, and give an int32 (the shifts << too) or a uint32   *)
(* (>>>).  Array indexes, lengths of the byte arrays held in the model and *)
(* shift counts are ordinary integers.                                     *)
(*                                                                         *)
(* Byte arrays.  block, pad and the digest are sequences over 0..255,      *)
(* index k of the source being index k+1 here.  A message (the msg         *)
(* argument of update) is held in run-length form [unit, times]: the bytes *)
(* of unit repeated times times, so that "a".repeat(1000000) of the test   *)
(* is a value the model checker can hold; an ordinary message has          *)
(* times = 1.                                                              *)
(*                                                                         *)
(* Evaluation.  TLC evaluates the argument of an operator where the        *)
(* operator uses it, and anew at each use while it evaluates ENABLED (for  *)
(* the fairness condition of FairSpec).  An operator whose argument is the *)
(* result of a long computation therefore hands it to a local function     *)
(* (LET f[a \in Num] == ... IN f[x]), which takes it evaluated; the        *)
(* function is the body of the operator and nothing more.                  *)
(***************************************************************************)
EXTENDS Integers, Sequences, FiniteSets, TLC

---------------------------------------------------------------------------
(* JavaScript number arithmetic *)

Two16 == 2 ^ 16

\* The number hi * 2^16 + lo, written as in a hexadecimal literal 0xHHHHLLLL.
Hex(hi, lo) == <<hi, lo>>

\* An ordinary non-negative integer k as a number.
NumOf(k) == <<k \div Two16, k % Two16>>

\* The pairs that stand for numbers.
Num == Int \X Int

\* x + y, exact.
Add(x, y) ==
  LET sum[a \in Num, b \in Num] ==
        LET lo == a[2] + b[2]
        IN  <<a[1] + b[1] + (lo \div Two16), lo % Two16>>
  IN  sum[x, y]

\* x > y on numbers.
Greater(x, y) ==
  LET gt[a \in Num, b \in Num] == a[1] > b[1] \/ (a[1] = b[1] /\ a[2] > b[2])
  IN  gt[x, y]

\* ToUint32: x modulo 2^32.
ToUint32(x) ==
  LET mod[a \in Num] == <<a[1] % Two16, a[2]>>
  IN  mod[x]

\* ToInt32: x modulo 2^32, taken in -2^31 .. 2^31 - 1.
ToInt32(x) ==
  LET mod[a \in Num] ==
        LET h == a[1] % Two16
        IN  <<IF h >= 32768 THEN h - Two16 ELSE h, a[2]>>
  IN  mod[x]

\* One bit of each operator: and, or, xor.
BitFn(op, p, q) ==
  CASE op = "and" -> p * q
    [] op = "or"  -> p + q - p * q
    [] op = "xor" -> (p + q) % 2

RECURSIVE BitsOp(_, _, _, _)
BitsOp(op, n, x, y) ==
  IF n = 0 THEN 0
  ELSE BitFn(op, x % 2, y % 2) + 2 * BitsOp(op, n - 1, x \div 2, y \div 2)

\* The operators on 4 bits, tabulated, and from them on 16 bits.
NibbleTable(op) == [x \in 0..15 |-> [y \in 0..15 |-> BitsOp(op, 4, x, y)]]
AndNibble == NibbleTable("and")
OrNibble  == NibbleTable("or")
XorNibble == NibbleTable("xor")

Op16(t, x, y) ==
    4096 * t[x \div 4096][y \div 4096]
  + 256 * t[(x \div 256) % 16][(y \div 256) % 16]
  + 16 * t[(x \div 16) % 16][(y \div 16) % 16]
  + t[x % 16][y % 16]

\* The operator of table t on the 32 low bits of x and y, the result an int32.
Op32(t, x, y) ==
  LET bits[a \in Num, b \in Num] ==
        ToInt32(<<Op16(t, a[1] % Two16, b[1] % Two16), Op16(t, a[2], b[2])>>)
  IN  bits[x, y]

\* x & y, x | y, x ^ y, ~x.
BitAnd(x, y) == Op32(AndNibble, x, y)
BitOr(x, y)  == Op32(OrNibble, x, y)
BitXor(x, y) == Op32(XorNibble, x, y)
BitNot(x) ==
  LET bits[a \in Num] == ToInt32(<<65535 - (a[1] % Two16), 65535 - a[2]>>)
  IN  bits[x]

\* x << n: the shift count is taken modulo 32, the result is an int32.
Shl(x, n) ==
  LET shift[a \in Num, s \in 0..31] ==
        LET h == a[1] % Two16
            l == a[2]
        IN  IF s >= 16
            THEN ToInt32(<<(l % (2 ^ (32 - s))) * (2 ^ (s - 16)), 0>>)
            ELSE ToInt32(<<(h % (2 ^ (16 - s))) * (2 ^ s) + (l \div (2 ^ (16 - s))),
                           (l % (2 ^ (16 - s))) * (2 ^ s)>>)
  IN  shift[x, n % 32]

\* x >>> n: the shift count is taken modulo 32, the result is a uint32.
UShr(x, n) ==
  LET shift[a \in Num, s \in 0..31] ==
        LET h == a[1] % Two16
            l == a[2]
        IN  IF s >= 16
            THEN <<0, h \div (2 ^ (s - 16))>>
            ELSE <<h \div (2 ^ s), (h % (2 ^ s)) * (2 ^ (16 - s)) + (l \div (2 ^ s))>>
  IN  shift[x, n % 32]

---------------------------------------------------------------------------
(* The block compressor *)

BLOCK_SIZE == 64

\* rol32 with the right shift by n, not by 32 - n.
RotateByN(x, n) ==
  LET rot[a \in Num] == BitOr(Shl(a, n), UShr(a, n))
  IN  rot[x]
rol32(x, n) ==
  LET rot[a \in Num] == BitOr(Shl(a, n), UShr(a, 32 - n))
  IN  rot[x]

\* blk reading the four bytes high byte first.
BigEndianBlk(block, i) ==
  BitOr(BitOr(BitOr(NumOf(block[i + 4]),
                    Shl(NumOf(block[i + 3]), 8)),
              Shl(NumOf(block[i + 2]), 16)),
        Shl(NumOf(block[i + 1]), 24))

\* block[i] | block[i+1] << 8 | block[i+2] << 16 | block[i+3] << 24
blk(block, i) ==
  BitOr(BitOr(BitOr(NumOf(block[i + 1]),
                    Shl(NumOf(block[i + 2]), 8)),
              Shl(NumOf(block[i + 3]), 16)),
        Shl(NumOf(block[i + 4]), 24))

\* round 1: the statement  a = b + rol32((((c ^ d) & b) ^ d) + a  + x + t, n)  with the variable at index v of
\* <<a, b, c, d>> in the place of a and the three after it (cyclically) in
\* the places of b, c and d.
round1(s, v, x, t, n) ==
  LET assign[w \in Seq(Num)] ==
        LET a == w[v]
            b == w[(v % 4) + 1]
            c == w[((v + 1) % 4) + 1]
            d == w[((v + 2) % 4) + 1]
        IN  [w EXCEPT ![v] = Add(b, rol32(Add(Add(Add(BitXor(BitAnd(BitXor(c, d), b), d), a), x), t), n))]
  IN  assign[s]

\* round 2: the statement  a = b + rol32((((b ^ c) & d) ^ c) + a  + x + t, n)  with the variable at index v of
\* <<a, b, c, d>> in the place of a and the three after it (cyclically) in
\* the places of b, c and d.
round2(s, v, x, t, n) ==
  LET assign[w \in Seq(Num)] ==
        LET a == w[v]
            b == w[(v % 4) + 1]
            c == w[((v + 1) % 4) + 1]
            d == w[((v + 2) % 4) + 1]
        IN  [w EXCEPT ![v] = Add(b, rol32(Add(Add(Add(BitXor(BitAnd(BitXor(b, c), d), c), a), x), t), n))]
  IN  assign[s]

\* round 3: the statement  a = b + rol32((b ^ c ^ d) + a  + x + t, n)  with the variable at index v of
\* <<a, b, c, d>> in the place of a and the three after it (cyclically) in
\* the places of b, c and d.
round3(s, v, x, t, n) ==
  LET assign[w \in Seq(Num)] ==
        LET a == w[v]
            b == w[(v % 4) + 1]
            c == w[((v + 1) % 4) + 1]
            d == w[((v + 2) % 4) + 1]
        IN  [w EXCEPT ![v] = Add(b, rol32(Add(Add(Add(BitXor(BitXor(b, c), d), a), x), t), n))]
  IN  assign[s]

\* round 4: the statement  a = b + rol32((c ^ (b | ~d)) + a  + x + t, n)  with the variable at index v of
\* <<a, b, c, d>> in the place of a and the three after it (cyclically) in
\* the places of b, c and d.
round4(s, v, x, t, n) ==
  LET assign[w \in Seq(Num)] ==
        LET a == w[v]
            b == w[(v % 4) + 1]
            c == w[((v + 1) % 4) + 1]
            d == w[((v + 2) % 4) + 1]
        IN  [w EXCEPT ![v] = Add(b, rol32(Add(Add(Add(BitXor(c, BitOr(b, BitNot(d))), a), x), t), n))]
  IN  assign[s]

\* The 64 assignments of hash, lines 118-187, in program order.  Each is
\* << round, index of the assigned variable in <<a, b, c, d>>, index k of the
\* message word xk, additive constant, rotation >>.
Statements ==
  << << 1, 1,  0, Hex(\hd76a, \ha478),  7 >>,   \* line 118: a = ... x0 ...
     << 1, 4,  1, Hex(\he8c7, \hb756), 12 >>,   \* line 119: d = ... x1 ...
     << 1, 3,  2, Hex(\h2420, \h70db), 17 >>,   \* line 120: c = ... x2 ...
     << 1, 2,  3, Hex(\hc1bd, \hceee), 22 >>,   \* line 121: b = ... x3 ...
     << 1, 1,  4, Hex(\hf57c, \h0faf),  7 >>,   \* line 122: a = ... x4 ...
     << 1, 4,  5, Hex(\h4787, \hc62a), 12 >>,   \* line 123: d = ... x5 ...
     << 1, 3,  6, Hex(\ha830, \h4613), 17 >>,   \* line 124: c = ... x6 ...
     << 1, 2,  7, Hex(\hfd46, \h9501), 22 >>,   \* line 125: b = ... x7 ...
     << 1, 1,  8, Hex(\h6980, \h98d8),  7 >>,   \* line 126: a = ... x8 ...
     << 1, 4,  9, Hex(\h8b44, \hf7af), 12 >>,   \* line 127: d = ... x9 ...
     << 1, 3, 10, Hex(\hffff, \h5bb1), 17 >>,   \* line 128: c = ... xa ...
     << 1, 2, 11, Hex(\h895c, \hd7be), 22 >>,   \* line 129: b = ... xb ...
     << 1, 1, 12, Hex(\h6b90, \h1122),  7 >>,   \* line 130: a = ... xc ...
     << 1, 4, 13, Hex(\hfd98, \h7193), 12 >>,   \* line 131: d = ... xd ...
     << 1, 3, 14, Hex(\ha679, \h438e), 17 >>,   \* line 132: c = ... xe ...
     << 1, 2, 15, Hex(\h49b4, \h0821), 22 >>,   \* line 133: b = ... xf ...
     << 2, 1,  1, Hex(\hf61e, \h2562),  5 >>,   \* line 136: a = ... x1 ...
     << 2, 4,  6, Hex(\hc040, \hb340),  9 >>,   \* line 137: d = ... x6 ...
     << 2, 3, 11, Hex(\h265e, \h5a51), 14 >>,   \* line 138: c = ... xb ...
     << 2, 2,  0, Hex(\he9b6, \hc7aa), 20 >>,   \* line 139: b = ... x0 ...
     << 2, 1,  5, Hex(\hd62f, \h105d),  5 >>,   \* line 140: a = ... x5 ...
     << 2, 4, 10, Hex(\h0244, \h1453),  9 >>,   \* line 141: d = ... xa ...
     << 2, 3, 15, Hex(\hd8a1, \he681), 14 >>,   \* line 142: c = ... xf ...
     << 2, 2,  4, Hex(\he7d3, \hfbc8), 20 >>,   \* line 143: b = ... x4 ...
     << 2, 1,  9, Hex(\h21e1, \hcde6),  5 >>,   \* line 144: a = ... x9 ...
     << 2, 4, 14, Hex(\hc337, \h07d6),  9 >>,   \* line 145: d = ... xe ...
     << 2, 3,  3, Hex(\hf4d5, \h0d87), 14 >>,   \* line 146: c = ... x3 ...
     << 2, 2,  8, Hex(\h455a, \h14ed), 20 >>,   \* line 147: b = ... x8 ...
     << 2, 1, 13, Hex(\ha9e3, \he905),  5 >>,   \* line 148: a = ... xd ...
     << 2, 4,  2, Hex(\hfcef, \ha3f8),  9 >>,   \* line 149: d = ... x2 ...
     << 2, 3,  7, Hex(\h676f, \h02d9), 14 >>,   \* line 150: c = ... x7 ...
     << 2, 2, 12, Hex(\h8d2a, \h4c8a), 20 >>,   \* line 151: b = ... xc ...
     << 3, 1,  5, Hex(\hfffa, \h3942),  4 >>,   \* line 154: a = ... x5 ...
     << 3, 4,  8, Hex(\h8771, \hf681), 11 >>,   \* line 155: d = ... x8 ...
     << 3, 3, 11, Hex(\h6d9d, \h6122), 16 >>,   \* line 156: c = ... xb ...
     << 3, 2, 14, Hex(\hfde5, \h380c), 23 >>,   \* line 157: b = ... xe ...
     << 3, 1,  1, Hex(\ha4be, \hea44),  4 >>,   \* line 158: a = ... x1 ...
     << 3, 4,  4, Hex(\h4bde, \hcfa9), 11 >>,   \* line 159: d = ... x4 ...
     << 3, 3,  7, Hex(\hf6bb, \h4b60), 16 >>,   \* line 160: c = ... x7 ...
     << 3, 2, 10, Hex(\hbebf, \hbc70), 23 >>,   \* line 161: b = ... xa ...
     << 3, 1, 13, Hex(\h289b, \h7ec6),  4 >>,   \* line 162: a = ... xd ...
     << 3, 4,  0, Hex(\heaa1, \h27fa), 11 >>,   \* line 163: d = ... x0 ...
     << 3, 3,  3, Hex(\hd4ef, \h3085), 16 >>,   \* line 164: c = ... x3 ...
     << 3, 2,  6, Hex(\h0488, \h1d05), 23 >>,   \* line 165: b = ... x6 ...
     << 3, 1,  9, Hex(\hd9d4, \hd039),  4 >>,   \* line 166: a = ... x9 ...
     << 3, 4, 12, Hex(\he6db, \h99e5), 11 >>,   \* line 167: d = ... xc ...
     << 3, 3, 15, Hex(\h1fa2, \h7cf8), 16 >>,   \* line 168: c = ... xf ...
     << 3, 2,  2, Hex(\hc4ac, \h5665), 23 >>,   \* line 169: b = ... x2 ...
     << 4, 1,  0, Hex(\hf429, \h2244),  6 >>,   \* line 172: a = ... x0 ...
     << 4, 4,  7, Hex(\h432a, \hff97), 10 >>,   \* line 173: d = ... x7 ...
     << 4, 3, 14, Hex(\hab94, \h23a7), 15 >>,   \* line 174: c = ... xe ...
     << 4, 2,  5, Hex(\hfc93, \ha039), 21 >>,   \* line 175: b = ... x5 ...
     << 4, 1, 12, Hex(\h655b, \h59c3),  6 >>,   \* line 176: a = ... xc ...
     << 4, 4,  3, Hex(\h8f0c, \hcc92), 10 >>,   \* line 177: d = ... x3 ...
     << 4, 3, 10, Hex(\hffef, \hf47d), 15 >>,   \* line 178: c = ... xa ...
     << 4, 2,  1, Hex(\h8584, \h5dd1), 21 >>,   \* line 179: b = ... x1 ...
     << 4, 1,  8, Hex(\h6fa8, \h7e4f),  6 >>,   \* line 180: a = ... x8 ...
     << 4, 4, 15, Hex(\hfe2c, \he6e0), 10 >>,   \* line 181: d = ... xf ...
     << 4, 3,  6, Hex(\ha301, \h4314), 15 >>,   \* line 182: c = ... x6 ...
     << 4, 2, 13, Hex(\h4e08, \h11a1), 21 >>,   \* line 183: b = ... xd ...
     << 4, 1,  4, Hex(\hf753, \h7e82),  6 >>,   \* line 184: a = ... x4 ...
     << 4, 4, 11, Hex(\hbd3a, \hf235), 10 >>,   \* line 185: d = ... xb ...
     << 4, 3,  2, Hex(\h2ad7, \hd2bb), 15 >>,   \* line 186: c = ... x2 ...
     << 4, 2,  9, Hex(\heb86, \hd391), 21 >>    \* line 187: b = ... x9 ...
  >>

\* The k-th assignment applied to s = <<a, b, c, d>>, X the message words.
Statement(s, X, k) ==
  LET st == Statements[k]
      x  == X[st[3] + 1]
  IN  CASE st[1] = 1 -> round1(s, st[2], x, st[4], st[5])
        [] st[1] = 2 -> round2(s, st[2], x, st[4], st[5])
        [] st[1] = 3 -> round3(s, st[2], x, st[4], st[5])
        [] st[1] = 4 -> round4(s, st[2], x, st[4], st[5])

\* The first n assignments applied in program order to s.  (The range is
\* halved only to keep the depth of TLC's evaluation small.)
RunStatements(s, X, n) ==
  LET run[from \in 1..n, to \in 1..n, w \in Seq(Num)] ==
        IF from = to THEN Statement(w, X, from)
        ELSE run[((from + to) \div 2) + 1, to, run[from, (from + to) \div 2, w]]
  IN  run[1, n, s]

\* hash, lines 98-195.
hash(state, block) ==
  LET x0 == blk(block, 0)
      x1 == blk(block, 4)
      x2 == blk(block, 8)
      x3 == blk(block, 12)
      x4 == blk(block, 16)
      x5 == blk(block, 20)
      x6 == blk(block, 24)
      x7 == blk(block, 28)
      x8 == blk(block, 32)
      x9 == blk(block, 36)
      xa == blk(block, 40)
      xb == blk(block, 44)
      xc == blk(block, 48)
      xd == blk(block, 52)
      xe == blk(block, 56)
      xf == blk(block, 60)
      sums[last \in Seq(Num)] ==
        << UShr(Add(state[1], last[1]), 0),
           UShr(Add(state[2], last[2]), 0),
           UShr(Add(state[3], last[3]), 0),
           UShr(Add(state[4], last[4]), 0) >>
      run[X \in Seq(Num)] == sums[RunStatements(state, X, Len(Statements))]
  IN  run[<< x0, x1, x2, x3, x4, x5, x6, x7, x8, x9, xa, xb, xc, xd, xe, xf >>]

---------------------------------------------------------------------------
(* Byte arrays and messages *)

Zeros(n) == [k \in 1..n |-> 0]

\* An ordinary byte array as a message.
Bytes(b) == [unit |-> b, times |-> 1]

\* msg.length
MsgLen(m) == Len(m.unit) * m.times

\* msg.slice(from, to), for 0 <= from <= to <= msg.length, as a byte array.
MsgSlice(m, from, to) ==
  [k \in 1..(to - from) |-> m.unit[((from + k - 1) % Len(m.unit)) + 1]]

\* target.set(source, offset): source copied into target from index offset on.
SetAt(target, source, offset) ==
  [k \in 1..Len(target) |->
      IF k > offset /\ k <= offset + Len(source)
      THEN source[k - offset] ELSE target[k]]

\* array[index] = value on a Uint8Array: the value modulo 256; a write outside
\* the array is ignored.
Store(array, index, value) ==
  IF index >= 0 /\ index < Len(array)
  THEN [array EXCEPT ![index + 1] = value[2] % 256]
  ELSE array

---------------------------------------------------------------------------
(* TextEncoder().encode: the UTF-8 encoding of a string of UTF-16 code units *)

IsHigh(c) == c >= 55296 /\ c <= 56319
IsLow(c)  == c >= 56320 /\ c <= 57343

\* The bytes code unit k of s contributes.
EncodeUnit(s, k) ==
  LET c == s[k]
  IN  IF c < 128 THEN <<c>>
      ELSE IF c < 2048 THEN <<192 + (c \div 64), 128 + (c % 64)>>
      ELSE IF IsHigh(c) /\ k < Len(s) /\ IsLow(s[k + 1])
      THEN LET cp == 65536 + (c - 55296) * 1024 + (s[k + 1] - 56320)
           IN  <<240 + (cp \div 262144), 128 + ((cp \div 4096) % 64),
                 128 + ((cp \div 64) % 64), 128 + (cp % 64)>>
      ELSE IF IsLow(c) /\ k > 1 /\ IsHigh(s[k - 1]) THEN <<>>
      ELSE IF IsHigh(c) \/ IsLow(c) THEN <<239, 191, 189>>
      ELSE <<224 + (c \div 4096), 128 + ((c \div 64) % 64), 128 + (c % 64)>>

RECURSIVE EncodeRange(_, _, _)
EncodeRange(s, lo, hi) ==
  IF lo > hi THEN <<>>
  ELSE IF lo = hi THEN EncodeUnit(s, lo)
  ELSE LET mid == (lo + hi) \div 2
       IN  EncodeRange(s, lo, mid) \o EncodeRange(s, mid + 1, hi)

Utf8(s) == EncodeRange(s, 1, Len(s))

\* A string is held as its code units repeated times times (String.repeat);
\* the repeated unit holds no surrogate, so the encoding repeats as well.
TextEncode(str) == [unit |-> Utf8(str.unit), times |-> str.times]

---------------------------------------------------------------------------
(* md5() and update(), statement by statement *)

\* MsgOf taking the whole underlying buffer of a view.
WholeBufferOfView(data) ==
  IF data.type = "string" THEN TextEncode(data) ELSE Bytes(data.buffer)

\* md5, lines 37-41: the bytes of the argument.
MsgOf(data) ==
  IF data.type = "string" THEN TextEncode(data)
  ELSE IF data.type = "view"
  THEN Bytes(SubSeq(data.buffer, data.byteOffset + 1,
                    data.byteOffset + data.byteLength))
  ELSE Bytes(data.buffer)

\* md5, line 43
InitialState ==
  << Hex(\h6745, \h2301), Hex(\hefcd, \hab89),
     Hex(\h98ba, \hdcfe), Hex(\h1032, \h5476) >>

\* update, line 205
Free(p) == BLOCK_SIZE - p

\* SetShort writing at the start of the block, not at pos.
SetShortAtStart(blockArr, m, p) == SetAt(blockArr, MsgSlice(m, 0, MsgLen(m)), 0)

\* update, line 208: block.set(msg, pos)
SetShort(blockArr, m, p) == SetAt(blockArr, MsgSlice(m, 0, MsgLen(m)), p)

\* update, line 212: block.set(msg.slice(0, free), pos)
SetFirst(blockArr, m, p) == SetAt(blockArr, MsgSlice(m, 0, Free(p)), p)

\* update, line 223: block.fill(0).set(msg.slice(i), 0)
SetLeftover(blockArr, m, from) ==
  SetAt(Zeros(Len(blockArr)), MsgSlice(m, from, MsgLen(m)), 0)

\* LeftoverPos as the message length modulo the block size.
LengthModBlock(m, from) == MsgLen(m) % BLOCK_SIZE

\* update, line 224: pos = msg.length - i
LeftoverPos(m, from) == MsgLen(m) - from

\* addLength without the carry into the high word.
AddLengthNoCarry(a0, a1, len) == << UShr(Add(a0, len), 0), a1 >>

\* addLength, lines 231-235
addLength(a0, a1, len) ==
  LET s0 == Add(a0, len)
      s1 == IF Greater(s0, Hex(\hffff, \hffff)) THEN Add(a1, NumOf(1)) ELSE a1
  IN  <<UShr(s0, 0), s1>>

\* PadLen asking for 8 bytes of room, not 9.
PadLenRoomFor8(p) ==
  LET padLen == BLOCK_SIZE - p
  IN  IF padLen < 8 THEN padLen + BLOCK_SIZE ELSE padLen

\* PadLen adding a block whatever room there is.
PadLenAlwaysLong(p) == 2 * BLOCK_SIZE - p

\* md5, lines 51-52
PadLen(p) ==
  LET padLen == BLOCK_SIZE - p
  IN  IF padLen < 9 THEN padLen + BLOCK_SIZE ELSE padLen

\* BitCount without the three bits carried from the low word.
BitCountNoCarry(a0, a1) == << Shl(a0, 3), Shl(a1, 3) >>

\* md5, line 58: the byte counter turned into a bit counter.
BitCount(a0, a1) == << Shl(a0, 3), BitOr(Shl(a1, 3), UShr(a0, 29)) >>

\* md5, lines 54-66, with n0 and n1 as line 58 left them.
MakePad(padLen, b0, b1) ==
  LET p0 == Zeros(padLen)
      p1 == Store(p0, 0, Hex(0, \h80))
      p2 == Store(p1, padLen - 8, BitAnd(b0, Hex(0, \hff)))
      p3 == Store(p2, padLen - 7, BitAnd(UShr(b0, 8), Hex(0, \hff)))
      p4 == Store(p3, padLen - 6, BitAnd(UShr(b0, 16), Hex(0, \hff)))
      p5 == Store(p4, padLen - 5, BitAnd(UShr(b0, 24), Hex(0, \hff)))
      p6 == Store(p5, padLen - 4, BitAnd(b1, Hex(0, \hff)))
      p7 == Store(p6, padLen - 3, BitAnd(UShr(b1, 8), Hex(0, \hff)))
      p8 == Store(p7, padLen - 2, BitAnd(UShr(b1, 16), Hex(0, \hff)))
      p9 == Store(p8, padLen - 1, BitAnd(UShr(b1, 24), Hex(0, \hff)))
  IN  p9

\* DataView.setUint32(offset, value, true): value modulo 2^32, low byte first.
SetUint32LE(buf, offset, value) ==
  LET v == ToUint32(value)
  IN  SetAt(buf, << v[2] % 256, v[2] \div 256, v[1] % 256, v[1] \div 256 >>, offset)

\* Digest with each word high byte first (littleEndian = false).
BigEndianDigest(s) ==
  LET be(v) == << ToUint32(v)[1] \div 256, ToUint32(v)[1] % 256,
                  ToUint32(v)[2] \div 256, ToUint32(v)[2] % 256 >>
  IN  be(s[1]) \o be(s[2]) \o be(s[3]) \o be(s[4])

\* md5, lines 77-84
Digest(s) ==
  SetUint32LE(SetUint32LE(SetUint32LE(SetUint32LE(Zeros(16),
      0, s[1]), 4, s[2]), 8, s[3]), 12, s[4])

---------------------------------------------------------------------------
(* The state *)

VARIABLES
  pc,       \* the statement about to run: "start", "update", "loop", "pad",
            \* "finish", "done" of md5 and update; "idle" and "count" of the
            \* drivers of update and addLength
  data,     \* md5's argument
  state,    \* the four state words
  block,    \* the 64-byte block buffer
  pos,      \* bytes of block in use
  n0, n1,   \* the length counter, low and high word
  msg,      \* update's msg argument
  i,        \* update's index into msg
  ret,      \* where the running update call returns to
  pad,      \* md5's padding buffer
  digest,   \* md5's result
  calls,    \* hash() invocations of the running (or last) update call
  updates,  \* update calls so far
  counted,  \* the length counter as it was when the padding was built
  fed,      \* all bytes handed to update by the driver, in order
  total,    \* the number of bytes handed to update or addLength so far
  feeds,    \* the driver's calls so far
  phase,    \* driver of update: "chunked", then "whole"
  saved     \* driver of update: what the chunked run reached

vars == << pc, data, state, block, pos, n0, n1, msg, i, ret, pad, digest,
           calls, updates, counted, fed, total, feeds, phase, saved >>

ctx == << state, block, pos, n0, n1 >>
call == << msg, i, ret, calls, updates >>
driver == << fed, total, feeds, phase, saved >>

---------------------------------------------------------------------------
(* Bounds and inputs *)

\* Longest byte-array argument of md5.
MaxLen == 130
\* Most update calls (addLength calls) one run of a driver makes.
MaxFeeds == 3
\* Longest chunk the driver of update hands over is MaxChunk.
MaxChunk == 129

\* A byte array of n bytes that repeats only after 256.
Pattern(seed, n) == [k \in 1..n |-> (seed + 37 * k) % 256]

Repeat(c, n) == [k \in 1..n |-> c]

Str(u) == [type |-> "string", unit |-> u, times |-> 1]

\* The inputs of the repository's test (testSetHex) with the digests it expects,
\* as pairs of 16-bit words in the order of the hexadecimal text.
LetterA == 97
Million == 1000000
QuickBrownFox ==
  << 84, 104, 101, 32, 113, 117, 105, 99, 107, 32, 98, 114, 111, 119, 110,
     32, 102, 111, 120, 32, 106, 117, 109, 112, 115, 32, 111, 118, 101, 114,
     32, 116, 104, 101, 32, 108, 97, 122, 121, 32, 100, 111, 103 >>

TestEmpty   == Str(<< >>)
TestAbc     == Str(<< 97, 98, 99 >>)
TestDeno    == Str(<< 100, 101, 110, 111 >>)
TestFox     == Str(QuickBrownFox)
TestA56     == Str(Repeat(LetterA, 56))
TestA64     == Str(Repeat(LetterA, 64))
TestMillion == [type |-> "string", unit |-> << LetterA >>, times |-> Million]

TestSetHex ==
  << << TestEmpty,   << \hd41d, \h8cd9, \h8f00, \hb204, \he980, \h0998, \hecf8, \h427e >> >>,
     << TestAbc,     << \h9001, \h5098, \h3cd2, \h4fb0, \hd696, \h3f7d, \h28e1, \h7f72 >> >>,
     << TestDeno,    << \hc877, \h2b40, \h1bc9, \h11da, \h102a, \h5291, \hcc4e, \hc83b >> >>,
     << TestFox,     << \h9e10, \h7d9d, \h372b, \hb682, \h6bd8, \h1d35, \h42a4, \h19d6 >> >>,
     << TestA56,     << \h3b0c, \h8ac7, \h03f8, \h28b0, \h4c6c, \h1970, \h06d1, \h7218 >> >>,
     << TestA64,     << \h0148, \h42d4, \h80b5, \h7149, \h5a4a, \h0363, \h793f, \h7367 >> >>,
     << TestMillion, << \h7707, \hd6ae, \h4e02, \h7c70, \heea2, \ha935, \hc229, \h6f21 >> >> >>

\* encodeHex of a byte array, as 16-bit words.
EncodeHex(b) == [k \in 1..(Len(b) \div 2) |-> b[2 * k - 1] * 256 + b[2 * k]]

\* Strings outside the test: 66 times 'a', and text that is not ASCII (two- and
\* three-byte code points, a surrogate pair, lone surrogates).
A66 == Str(Repeat(LetterA, 66))
OtherStrings ==
  { A66,
    Str(<< 233 >>),
    Str(<< 8364, 49, 48 >>),
    Str(<< 104, 55357, 56832, 105 >>),
    Str(<< 56832, 97, 55357 >>) }

\* Typed-array views of len bytes at an offset into a larger buffer: the bytes
\* of the view are Pattern(11, len) in all of them, the bytes before and after
\* differ.  And whole ArrayBuffers.
ViewInputs ==
  { [type |-> "view",
     buffer |-> Repeat(out, off) \o Pattern(11, len) \o Repeat(out, 2),
     byteOffset |-> off, byteLength |-> len] :
       len \in 0..MaxLen, off \in {0, 3}, out \in {0, 255} }
BufferInputs ==
  { [type |-> "buffer", buffer |-> Pattern(200, len)] : len \in {0, 1, 64, 119, 120} }

Inputs == ViewInputs \cup BufferInputs \cup OtherStrings
TestInputs == { TestSetHex[k][1] : k \in 1..Len(TestSetHex) }

\* Chunk lengths the driver of update picks from: nothing, one byte, what is
\* free in the block, a block, two blocks, and lengths around them.
ChunkLens(p) == {0, 1, 55, Free(p), 2 * BLOCK_SIZE, MaxChunk}

\* Byte g (from 1) of the stream the driver of update feeds.
StreamByte(g) == (11 + 37 * g + (g \div 64)) % 256

\* Chunk lengths handed to addLength: up to and beyond 2^32.
CountLens ==
  { NumOf(0), NumOf(1), NumOf(BLOCK_SIZE), Hex(1, 0), Hex(\h8000, 0),
    Hex(\hffff, \hffff), Hex(\h10000, 0), Hex(\h10000, 1), Hex(\h20000, 0) }
TwoTo32 == Hex(\h10000, 0)

\* Length counters the padding is built from: 0 <= n0 < 2^32, 0 <= n1 < 2^29.
PadLows ==
  { NumOf(0), NumOf(1), NumOf(55), NumOf(56), NumOf(63), NumOf(64),
    Hex(\h1fff, \hffff), Hex(\h2000, 0), Hex(\h7fff, \hffff), Hex(\h8000, 0),
    Hex(\ha5c3, \h96e1), Hex(\hffff, \hffc0), Hex(\hffff, \hffff) }
PadHighs ==
  { NumOf(0), NumOf(1), NumOf(255), Hex(\h0123, \h4567), Hex(\h0fff, \hffff),
    Hex(\h1000, 0), Hex(\h1fff, \hffff) }

---------------------------------------------------------------------------
(* md5 *)

NoCall == msg = Bytes(<< >>) /\ i = 0 /\ ret = "none" /\ calls = 0 /\ updates = 0
NoDriver ==
  fed = << >> /\ total = NumOf(0) /\ feeds = 0 /\ phase = "none" /\ saved = << >>
NoResult == pad = << >> /\ digest = << >> /\ counted = << >>
NoContext ==
  state = InitialState /\ block = Zeros(BLOCK_SIZE) /\ pos = 0
  /\ n0 = NumOf(0) /\ n1 = NumOf(0)

InitOn(inputs) ==
  /\ pc = "start"
  /\ data \in inputs
  /\ NoContext /\ NoCall /\ NoDriver /\ NoResult

\* md5, lines 36-49: the message, the fresh context, the first update call.
Md5Start ==
  /\ pc = "start"
  /\ msg' = MsgOf(data)
  /\ state' = InitialState
  /\ block' = Zeros(BLOCK_SIZE)
  /\ pos' = 0
  /\ n0' = NumOf(0)
  /\ n1' = NumOf(0)
  /\ pc' = "update"
  /\ ret' = "pad"
  /\ i' = 0
  /\ calls' = 0
  /\ updates' = updates + 1
  /\ UNCHANGED << data, pad, digest, counted, driver >>

\* update, lines 205-209 and 227-228: the message fits in the block.
UpdateShort ==
  /\ pc = "update"
  /\ MsgLen(msg) < Free(pos)
  /\ block' = SetShort(block, msg, pos)
  /\ pos' = pos + MsgLen(msg)
  /\ n0' = addLength(n0, n1, NumOf(MsgLen(msg)))[1]
  /\ n1' = addLength(n0, n1, NumOf(MsgLen(msg)))[2]
  /\ pc' = ret
  /\ UNCHANGED << data, state, msg, i, ret, pad, digest, calls, updates,
                  counted, driver >>

\* update, lines 205-216: the block is completed and hashed.
UpdateFirst ==
  /\ pc = "update"
  /\ ~(MsgLen(msg) < Free(pos))
  /\ block' = SetFirst(block, msg, pos)
  /\ state' = hash(state, block')
  /\ i' = Free(pos)
  /\ calls' = calls + 1
  /\ pc' = "loop"
  /\ UNCHANGED << data, pos, n0, n1, msg, ret, pad, digest, updates,
                  counted, driver >>

\* update, lines 217-220: one iteration of the while loop.
UpdateLoop ==
  /\ pc = "loop"
  /\ i + BLOCK_SIZE <= MsgLen(msg)
  /\ state' = hash(state, MsgSlice(msg, i, i + BLOCK_SIZE))
  /\ i' = i + BLOCK_SIZE
  /\ calls' = calls + 1
  /\ UNCHANGED << pc, data, block, pos, n0, n1, msg, ret, pad, digest,
                  updates, counted, driver >>

\* update, lines 217 and 222-228: the loop ends, the leftover is stored.
UpdateLeftover ==
  /\ pc = "loop"
  /\ ~(i + BLOCK_SIZE <= MsgLen(msg))
  /\ block' = SetLeftover(block, msg, i)
  /\ pos' = LeftoverPos(msg, i)
  /\ n0' = addLength(n0, n1, NumOf(MsgLen(msg)))[1]
  /\ n1' = addLength(n0, n1, NumOf(MsgLen(msg)))[2]
  /\ pc' = ret
  /\ UNCHANGED << data, state, msg, i, ret, pad, digest, calls, updates,
                  counted, driver >>

\* md5, lines 51-75: the padding is built and handed to update.
Md5Pad ==
  /\ pc = "pad"
  /\ counted' = << n0, n1 >>
  /\ n0' = BitCount(n0, n1)[1]
  /\ n1' = BitCount(n0, n1)[2]
  /\ pad' = MakePad(PadLen(pos), n0', n1')
  /\ msg' = Bytes(pad')
  /\ pc' = "update"
  /\ ret' = "finish"
  /\ i' = 0
  /\ calls' = 0
  /\ updates' = updates + 1
  /\ UNCHANGED << data, state, block, pos, digest, driver >>

\* md5, lines 77-84: the digest is read from the state.
Md5Finish ==
  /\ pc = "finish"
  /\ digest' = Digest(state)
  /\ pc' = "done"
  /\ UNCHANGED << data, ctx, call, pad, counted, driver >>

Update == UpdateShort \/ UpdateFirst \/ UpdateLoop \/ UpdateLeftover

Init == InitOn(Inputs)
Next == Md5Start \/ Update \/ Md5Pad \/ Md5Finish
Spec == Init /\ [][Next]_vars

\* md5 runs to its end: it is straight-line code around the loop of update.
FairSpec == Spec /\ WF_vars(Next)

\* md5 on the inputs of the repository's test as well.
InitTest == InitOn(TestInputs \cup Inputs)
SpecTest == InitTest /\ [][Next]_vars


---------------------------------------------------------------------------
(* A driver of update: the streaming use of the pipeline.  It feeds a byte   *)
(* stream in chunks (phase "chunked"), finalizes as md5 does, then starts    *)
(* over with a fresh context and feeds the whole stream in one update call   *)
(* (phase "whole") and finalizes again.                                      *)

Chunk(from, len) == [k \in 1..len |-> StreamByte(from + k)]

InitStream ==
  /\ pc = "idle"
  /\ data = TestEmpty
  /\ NoContext /\ NoCall /\ NoResult
  /\ fed = << >> /\ total = NumOf(0) /\ feeds = 0 /\ phase = "chunked"
  /\ saved = << >>

\* One more chunk is handed to update.
Feed ==
  /\ pc = "idle"
  /\ phase = "chunked"
  /\ feeds < MaxFeeds
  /\ \E len \in ChunkLens(pos) :
        /\ msg' = Bytes(Chunk(Len(fed), len))
        /\ fed' = fed \o Chunk(Len(fed), len)
        /\ total' = Add(total, NumOf(len))
  /\ feeds' = feeds + 1
  /\ pc' = "update"
  /\ ret' = "idle"
  /\ i' = 0
  /\ calls' = 0
  /\ updates' = updates + 1
  /\ UNCHANGED << data, ctx, pad, digest, counted, phase, saved >>

\* The stream ends: the context goes on to md5's finalization (line 51).
EndOfInput ==
  /\ pc = "idle"
  /\ phase = "chunked"
  /\ saved' = << state, pos, SubSeq(block, 1, pos), n0, n1 >>
  /\ pc' = "pad"
  /\ UNCHANGED << data, ctx, call, pad, digest, counted, fed, total, feeds, phase >>

\* The same stream again, through one update call on a fresh context (as md5,
\* lines 43-49, makes it): the first update call of the new run.
FeedWhole ==
  /\ pc = "done"
  /\ phase = "chunked"
  /\ phase' = "whole"
  /\ saved' = Append(saved, digest)
  /\ state' = InitialState
  /\ block' = Zeros(BLOCK_SIZE)
  /\ pos' = 0
  /\ n0' = NumOf(0)
  /\ n1' = NumOf(0)
  /\ msg' = Bytes(fed)
  /\ pc' = "update"
  /\ ret' = "pad"
  /\ i' = 0
  /\ calls' = 0
  /\ updates' = 1
  /\ pad' = << >>
  /\ digest' = << >>
  /\ counted' = << >>
  /\ UNCHANGED << data, fed, total, feeds >>

NextStream == Feed \/ EndOfInput \/ FeedWhole \/ Update \/ Md5Pad \/ Md5Finish
SpecStream == InitStream /\ [][NextStream]_vars

---------------------------------------------------------------------------
(* A driver of addLength: what update (line 227) does to the length counter  *)
(* when it is handed a chunk of len bytes, for chunks too long to hold.      *)

InitCount ==
  /\ pc = "count"
  /\ data = TestEmpty
  /\ NoContext /\ NoCall /\ NoResult
  /\ fed = << >> /\ total = NumOf(0) /\ feeds = 0 /\ phase = "short"
  /\ saved = << >>

\* update, line 227, for a chunk of len bytes.  phase tells whether every chunk
\* so far was of at most 2^32 bytes; saved keeps the counter as it was.
Count ==
  /\ pc = "count"
  /\ feeds < MaxFeeds
  /\ \E len \in CountLens :
        /\ n0' = addLength(n0, n1, len)[1]
        /\ n1' = addLength(n0, n1, len)[2]
        /\ total' = Add(total, len)
        /\ phase' = IF Greater(len, TwoTo32) THEN "long" ELSE phase
  /\ saved' = << n0, n1 >>
  /\ feeds' = feeds + 1
  /\ UNCHANGED << pc, data, state, block, pos, call, pad, digest, counted, fed >>

NextCount == Count
SpecCount == InitCount /\ [][NextCount]_vars

---------------------------------------------------------------------------
(* md5 from line 51 on, for length counters a run of the model cannot reach  *)
(* by feeding bytes: pos is what such a counter leaves, n0 mod 64.           *)

InitPad ==
  /\ pc = "pad"
  /\ data = TestEmpty
  /\ state = InitialState
  /\ block = Zeros(BLOCK_SIZE)
  /\ n0 \in PadLows
  /\ n1 \in PadHighs
  /\ pos = n0[2] % BLOCK_SIZE
  /\ msg = Bytes(<< >>) /\ i = 0 /\ ret = "pad" /\ calls = 0 /\ updates = 1
  /\ NoDriver /\ NoResult

\* The padding never fits in what is free of the block (UpdateShort).
NextPad == Md5Pad \/ UpdateFirst \/ UpdateLoop \/ UpdateLeftover \/ Md5Finish
SpecPad == InitPad /\ [][NextPad]_vars

---------------------------------------------------------------------------
(* RFC 1321, the MD5 Message-Digest Algorithm, as the RFC states it: what    *)
(* the digests of md5 are compared with.  Words are pairs <<hi, lo>> of      *)
(* 16-bit halves, all arithmetic is modulo 2^32.                             *)

RfcAdd(x, y) ==
  LET lo == x[2] + y[2]
  IN  <<(x[1] + y[1] + (lo \div 65536)) % 65536, lo % 65536>>
And16(x, y) == Op16(AndNibble, x, y)
Or16(x, y)  == Op16(OrNibble, x, y)
Xor16(x, y) == Op16(XorNibble, x, y)
RfcAnd(x, y) == <<And16(x[1], y[1]), And16(x[2], y[2])>>
RfcOr(x, y)  == <<Or16(x[1], y[1]), Or16(x[2], y[2])>>
RfcXor(x, y) == <<Xor16(x[1], y[1]), Xor16(x[2], y[2])>>
RfcNot(x)    == <<65535 - x[1], 65535 - x[2]>>

\* x <<< s, for 0 < s < 32: by whole halves first, then by the rest.
RfcRotl(x, s) ==
  LET y == IF s >= 16 THEN <<x[2], x[1]>> ELSE x
      r == s % 16
      p == 2 ^ r
      q == 2 ^ (16 - r)
  IN  <<(y[1] % q) * p + (y[2] \div q), (y[2] % q) * p + (y[1] \div q)>>

\* Section 3.4: the auxiliary functions.
RfcF(x, y, z) == RfcOr(RfcAnd(x, y), RfcAnd(RfcNot(x), z))
RfcG(x, y, z) == RfcOr(RfcAnd(x, z), RfcAnd(y, RfcNot(z)))
RfcH(x, y, z) == RfcXor(RfcXor(x, y), z)
RfcI(x, y, z) == RfcXor(y, RfcOr(x, RfcNot(z)))

\* T[i] = the integer part of 4294967296 * abs(sin(i)), i in radians.
RfcT ==
  << <<\hd76a, \ha478>>, <<\he8c7, \hb756>>, <<\h2420, \h70db>>, <<\hc1bd, \hceee>>,
     <<\hf57c, \h0faf>>, <<\h4787, \hc62a>>, <<\ha830, \h4613>>, <<\hfd46, \h9501>>,
     <<\h6980, \h98d8>>, <<\h8b44, \hf7af>>, <<\hffff, \h5bb1>>, <<\h895c, \hd7be>>,
     <<\h6b90, \h1122>>, <<\hfd98, \h7193>>, <<\ha679, \h438e>>, <<\h49b4, \h0821>>,
     <<\hf61e, \h2562>>, <<\hc040, \hb340>>, <<\h265e, \h5a51>>, <<\he9b6, \hc7aa>>,
     <<\hd62f, \h105d>>, <<\h0244, \h1453>>, <<\hd8a1, \he681>>, <<\he7d3, \hfbc8>>,
     <<\h21e1, \hcde6>>, <<\hc337, \h07d6>>, <<\hf4d5, \h0d87>>, <<\h455a, \h14ed>>,
     <<\ha9e3, \he905>>, <<\hfcef, \ha3f8>>, <<\h676f, \h02d9>>, <<\h8d2a, \h4c8a>>,
     <<\hfffa, \h3942>>, <<\h8771, \hf681>>, <<\h6d9d, \h6122>>, <<\hfde5, \h380c>>,
     <<\ha4be, \hea44>>, <<\h4bde, \hcfa9>>, <<\hf6bb, \h4b60>>, <<\hbebf, \hbc70>>,
     <<\h289b, \h7ec6>>, <<\heaa1, \h27fa>>, <<\hd4ef, \h3085>>, <<\h0488, \h1d05>>,
     <<\hd9d4, \hd039>>, <<\he6db, \h99e5>>, <<\h1fa2, \h7cf8>>, <<\hc4ac, \h5665>>,
     <<\hf429, \h2244>>, <<\h432a, \hff97>>, <<\hab94, \h23a7>>, <<\hfc93, \ha039>>,
     <<\h655b, \h59c3>>, <<\h8f0c, \hcc92>>, <<\hffef, \hf47d>>, <<\h8584, \h5dd1>>,
     <<\h6fa8, \h7e4f>>, <<\hfe2c, \he6e0>>, <<\ha301, \h4314>>, <<\h4e08, \h11a1>>,
     <<\hf753, \h7e82>>, <<\hbd3a, \hf235>>, <<\h2ad7, \hd2bb>>, <<\heb86, \hd391>> >>

\* The rotations of the four rounds.
RfcS == << <<7, 12, 17, 22>>, <<5, 9, 14, 20>>, <<4, 11, 16, 23>>, <<6, 10, 15, 21>> >>

\* The message word that operation o (1..64) uses.
RfcK(o) ==
  LET j == (o - 1) % 16
  IN  CASE o <= 16 -> j
        [] o <= 32 -> (1 + 5 * j) % 16
        [] o <= 48 -> (5 + 3 * j) % 16
        [] OTHER   -> (7 * j) % 16

\* Operation o on <<A, B, C, D>>: [abcd k s o] is a = b + ((a + F(b,c,d) + X[k]
\* + T[o]) <<< s), and the roles of a, b, c, d turn by one for the next.
RfcOp(w, X, o) ==
  LET r == (o - 1) \div 16
      f == CASE r = 0 -> RfcF(w[2], w[3], w[4])
             [] r = 1 -> RfcG(w[2], w[3], w[4])
             [] r = 2 -> RfcH(w[2], w[3], w[4])
             [] r = 3 -> RfcI(w[2], w[3], w[4])
      sum == RfcAdd(RfcAdd(RfcAdd(w[1], f), X[RfcK(o) + 1]), RfcT[o])
  IN  << w[4], RfcAdd(w[2], RfcRotl(sum, RfcS[r + 1][((o - 1) % 4) + 1])), w[2], w[3] >>

\* TLC evaluates the definitions of a LET on demand; InOrder has it evaluate
\* first before it goes on to then.
InOrder(first, then) == IF Len(first) >= 0 THEN then ELSE then

RECURSIVE RfcOps(_, _, _, _)
RfcOps(w, X, from, to) ==
  IF from = to THEN RfcOp(w, X, from)
  ELSE LET mid  == (from + to) \div 2
           half == RfcOps(w, X, from, mid)
       IN  InOrder(half, RfcOps(half, X, mid + 1, to))

\* Section 3.1 and 3.2: a 1 bit, 0 bits up to 448 modulo 512, the length in bits
\* as 64 bits, low-order byte first.  (Lengths below 2^28 bytes.)
RfcPadded(bytes) ==
  LET len  == Len(bytes)
      bits == 8 * len
  IN  bytes \o << 128 >> \o [k \in 1..((55 - len) % 64) |-> 0]
        \o << bits % 256, (bits \div 256) % 256, (bits \div 65536) % 256,
              bits \div 16777216, 0, 0, 0, 0 >>

\* Word k (0..15) of block n (0..) of the padded message, low-order byte first.
RfcWord(m, n, k) ==
  LET at == 64 * n + 4 * k
  IN  << m[at + 4] * 256 + m[at + 3], m[at + 2] * 256 + m[at + 1] >>

\* Section 3.4: block n processed from <<A, B, C, D>> = w.
RfcBlock(w, m, n) ==
  LET X == [k \in 1..16 |-> RfcWord(m, n, k - 1)]
      v == RfcOps(w, X, 1, 64)
  IN  << RfcAdd(w[1], v[1]), RfcAdd(w[2], v[2]), RfcAdd(w[3], v[3]), RfcAdd(w[4], v[4]) >>

RECURSIVE RfcBlocks(_, _, _)
RfcBlocks(w, m, n) ==
  IF 64 * n >= Len(m) THEN w
  ELSE LET v == RfcBlock(w, m, n) IN InOrder(v, RfcBlocks(v, m, n + 1))

\* Section 3.3 and 3.5: the digest is A, B, C, D, each low-order byte first.
RfcMd5(bytes) ==
  LET w == RfcBlocks(<< <<\h6745, \h2301>>, <<\hefcd, \hab89>>,
                        <<\h98ba, \hdcfe>>, <<\h1032, \h5476>> >>,
                     RfcPadded(bytes), 0)
  IN  [k \in 1..16 |->
         LET h == w[((k - 1) \div 4) + 1][IF (k - 1) % 4 >= 2 THEN 1 ELSE 2]
         IN  IF k % 2 = 1 THEN h % 256 ELSE h \div 256]

---------------------------------------------------------------------------
(* The claims *)

\* The bytes md5 is to hash, stated apart from md5: the UTF-8 text of a string
\* (written out for the strings that are not ASCII), the byteLength bytes from
\* byteOffset on of a view, all bytes of an ArrayBuffer.
Utf8Text ==
  << << Str(<< 233 >>),                      << 195, 169 >> >>,
     << Str(<< 8364, 49, 48 >>),             << 226, 130, 172, 49, 48 >> >>,
     << Str(<< 104, 55357, 56832, 105 >>),   << 104, 240, 159, 152, 128, 105 >> >>,
     << Str(<< 56832, 97, 55357 >>),         << 239, 191, 189, 97, 239, 191, 189 >> >> >>

InputBytes(d) ==
  IF d.type = "string"
  THEN IF \E k \in 1..Len(Utf8Text) : Utf8Text[k][1] = d
       THEN (CHOOSE row \in { Utf8Text[k] : k \in 1..Len(Utf8Text) } : row[1] = d)[2]
       ELSE d.unit
  ELSE IF d.type = "view"
  THEN [k \in 1..d.byteLength |-> d.buffer[d.byteOffset + k]]
  ELSE d.buffer

\* The length in bytes of what md5 is to hash.
InputLen(d) == IF d.type = "string" /\ d.times > 1 THEN d.times ELSE Len(InputBytes(d))

Finished == pc = "done"
ExpectedHex(d) ==
  (CHOOSE row \in { TestSetHex[k] : k \in 1..Len(TestSetHex) } : row[1] = d)[2]

\* C1: md5(input) is the RFC 1321 digest of the input's bytes (of its UTF-8 text
\* for a string), and the digests of the repository's test come out as the test
\* expects: "", "abc", "deno", the quick brown fox, 56 times 'a', a million
\* times 'a'.
C1_Md5IsRfc1321 ==
  Finished =>
    /\ data \in TestInputs => EncodeHex(digest) = ExpectedHex(data)
    /\ (data.type = "string" => data.times = 1) => digest = RfcMd5(InputBytes(data))
C1_Witness ==
  /\ Finished /\ data = TestMillion
  /\ EncodeHex(digest) = << \h7707, \hd6ae, \h4e02, \h7c70, \heea2, \ha935, \hc229, \h6f21 >>

\* C2 as claimed: md5 of 66 times 'a' is 014842d480b571495a4a0363793f7367.
C2_Digest66 ==
  (Finished /\ data = A66) =>
    EncodeHex(digest) = << \h0148, \h42d4, \h80b5, \h7149, \h5a4a, \h0363, \h793f, \h7367 >>
\* C2, amended: 014842d480b571495a4a0363793f7367 is md5 of 64 times 'a' (the
\* string of the test).  Hashing it takes two blocks: the 64 bytes fill the first,
\* which the first update hashes leaving pos = 0, and the padding is the 64 bytes
\* of the second, which the finalizing update hashes with one invocation.
C2_Digest64 ==
  data = TestA64 =>
    /\ pc = "pad" => InputLen(data) = 64 /\ calls = 1 /\ pos = 0
    /\ Finished =>
         /\ EncodeHex(digest) =
              << \h0148, \h42d4, \h80b5, \h7149, \h5a4a, \h0363, \h793f, \h7367 >>
         /\ Len(pad) = 64 /\ calls = 1 /\ updates = 2
C2_Witness == Finished /\ data = TestA64 /\ Len(pad) = 64 /\ Len(digest) = 16

DigestIsStateLittleEndian ==
  /\ Len(digest) = 16
  /\ \A k \in 1..16 : digest[k] \in 0..255
  /\ \A k \in 0..3 :
        /\ state[k + 1][1] \in 0..65535
        /\ digest[4 * k + 1] + 256 * digest[4 * k + 2] = state[k + 1][2]
        /\ digest[4 * k + 3] + 256 * digest[4 * k + 4] = state[k + 1][1]

\* C3: md5 ends, with a digest of 16 bytes of which bytes 4k..4k+3 are word k of
\* the state (as the finalizing update left it), low byte first.
C3_DigestOfState ==
  /\ [](Finished => pos = 0 /\ ret = "finish" /\ DigestIsStateLittleEndian)
  /\ <>Finished
C3_Witness ==
  /\ Finished /\ data.type = "view" /\ data.byteLength = MaxLen
  /\ DigestIsStateLittleEndian /\ state[1][2] # state[1][1]

\* C4: for an input of L bytes the padding is 128 - (L mod 64) bytes and the
\* finalizing update invokes hash twice when L mod 64 is in 56..63; it is
\* 64 - (L mod 64) bytes and hash is invoked once otherwise.
C4_PaddingBlocks ==
  (pc \in {"finish", "done"}) =>
    LET rem == InputLen(data) % 64
    IN  IF rem >= 56
        THEN Len(pad) = 128 - rem /\ calls = 2
        ELSE Len(pad) = 64 - rem /\ calls = 1
C4_Witness ==
  Finished /\ InputLen(data) = 64 + 56 /\ Len(pad) = 72 /\ calls = 2

\* C5: a stream fed to update in chunks and the same stream fed in one call
\* leave the same state words, pos, first pos bytes of the block and length
\* counter, and the same digest after finalization.
C5_ChunksAsWhole ==
  phase = "whole" =>
    /\ pc = "pad" =>
         << state, pos, SubSeq(block, 1, pos), n0, n1 >> = SubSeq(saved, 1, 5)
    /\ Finished => digest = saved[6]
C5_Witness ==
  /\ Finished /\ phase = "whole" /\ feeds = MaxFeeds
  /\ Len(fed) > 2 * BLOCK_SIZE /\ Len(fed) % BLOCK_SIZE = 2
  /\ digest = saved[6]

\* C6: of a view md5 hashes the byteLength bytes from byteOffset on, whatever
\* the bytes of the buffer before and after them are, and it leaves its
\* argument as it was.
C6_ViewBytesOnly ==
  /\ [](Finished /\ data.type = "view" =>
          digest = RfcMd5([k \in 1..data.byteLength |-> data.buffer[data.byteOffset + k]]))
  /\ [][data' = data]_vars
C6_Witness ==
  /\ Finished /\ data.type = "view" /\ data.byteOffset = 3 /\ data.byteLength = 70
  /\ data.buffer[1] = 255 /\ Len(digest) = 16

\* C7: between update calls pos is in 0..63, it is the number of bytes fed so
\* far modulo 64, and the first pos bytes of the block are the last pos bytes
\* fed.
C7_PosAndBlock ==
  (pc \in {"idle", "pad"}) =>
    /\ pos \in 0..(BLOCK_SIZE - 1)
    /\ pos = Len(fed) % BLOCK_SIZE
    /\ SubSeq(block, 1, pos) = SubSeq(fed, Len(fed) - pos + 1, Len(fed))
C7_Witness ==
  /\ pc = "idle" /\ feeds = MaxFeeds /\ pos = 2 /\ Len(fed) = 2 * MaxChunk
  /\ SubSeq(block, 1, pos) = SubSeq(fed, Len(fed) - 1, Len(fed))

\* C8: md5 hands the padding to update once; it is 9 to 72 bytes and ends on a
\* block boundary, and that update hashes once or twice and leaves pos = 0.
C8_PaddingConsumed ==
  (pc \in {"finish", "done"}) =>
    /\ updates = 2
    /\ Len(pad) >= 9 /\ Len(pad) <= 72
    /\ (InputLen(data) + Len(pad)) % BLOCK_SIZE = 0
    /\ msg = Bytes(pad) /\ i = Len(pad)
    /\ calls \in {1, 2}
    /\ pos = 0
C8_Witness == Finished /\ Len(pad) = 9 /\ calls = 1 /\ InputLen(data) > BLOCK_SIZE

\* The eight bytes, low byte first, of 8 * (c1 * 2^32 + c0), by long
\* multiplication on the 16-bit limbs of the counter.
BitLengthBytes(c0, c1) ==
  LET t0 == 8 * c0[2]
      t1 == 8 * c0[1] + (t0 \div 65536)
      t2 == 8 * c1[2] + (t1 \div 65536)
      t3 == 8 * c1[1] + (t2 \div 65536)
      lo(t) == (t % 65536) % 256
      hi(t) == (t % 65536) \div 256
  IN  << lo(t0), hi(t0), lo(t1), hi(t1), lo(t2), hi(t2), lo(t3), hi(t3) >>

\* C9: the padding built from the byte counter (n0, n1), n0 < 2^32 and
\* n1 < 2^29, is 0x80, zeros, and the 64 bits of 8 * (n1 * 2^32 + n0), low byte
\* first.
C9_PadBytes ==
  pad # << >> =>
    /\ counted[1][1] \in 0..65535 /\ counted[2][1] \in 0..8191
    /\ pad[1] = 128
    /\ \A k \in 2..(Len(pad) - 8) : pad[k] = 0
    /\ SubSeq(pad, Len(pad) - 7, Len(pad)) = BitLengthBytes(counted[1], counted[2])
C9_Witness ==
  /\ pad # << >>
  /\ counted = << Hex(\hffff, \hffff), Hex(\h1fff, \hffff) >>
  /\ SubSeq(pad, Len(pad) - 7, Len(pad)) = << 248, 255, 255, 255, 255, 255, 255, 255 >>

\* n1 * 2^32 + n0 as one number.
Counter(c0, c1) == << (c1[1] * 65536 + c1[2]) * 65536 + c0[1], c0[2] >>
CounterIsTotal ==
  /\ n0[1] \in 0..65535 /\ n0[2] \in 0..65535
  /\ Counter(n0, n1) = total
  /\ feeds > 0 => ~Greater(Counter(saved[1], saved[2]), Counter(n0, n1))

\* C10 as claimed: whatever the lengths of the chunks, n1 * 2^32 + n0 is the
\* number of bytes fed so far, with 0 <= n0 < 2^32, and never decreases.
C10_AnyChunks == CounterIsTotal
\* C10, amended: that holds as long as no chunk is longer than 2^32 bytes (one
\* update call then carries at most 1 into n1, which is all addLength does).
C10_ChunksUpTo2To32 == phase = "short" => CounterIsTotal
C10_Witness ==
  /\ phase = "short" /\ feeds = MaxFeeds /\ n1 = NumOf(2)
  /\ n0 = Hex(\hffff, \hfffd) /\ total = Hex(\h2ffff, \hfffd)

=============================================================================
